---- MODULE Spec2Model ----
(***************************************************************************)
(* Model of yazeed1s/rb_tree (src/rbtree.c, src/rbtree.h).                 *)
(*                                                                         *)
(* The heap is a sequence of node_t records; a node pointer is an index    *)
(* into it and NULL is 0.  Keys are the void* values the caller passes:    *)
(* rbtree.c compares them with < and > on the pointers themselves, so a    *)
(* key is modelled by its address, a positive integer, and NULL by 0.      *)
(* Nodes are never freed, so the heap only grows.                          *)
(*                                                                         *)
(* rb_rebalance, rb_get_uncle_color, rb_color_flip and rb_rotate are       *)
(* static functions that no function of rbtree.c calls; they change no     *)
(* state and have no action here.                                          *)
(***************************************************************************)
EXTENDS Integers, Sequences, FiniteSets, TLC

\* ---- bounds of the model ----
MaxKey == 3        \* keys (addresses) are 1..MaxKey
MaxNodes == 4      \* malloc succeeds at most MaxNodes times
MaxDistinct == 5   \* SpecDistinct inserts the keys 10, 20, .. 10 * MaxDistinct
MaxTreeNodes == 3  \* SpecValidate validates every tree of up to MaxTreeNodes nodes

\* ---- program constants ----
NULL == 0
RED == 1
BLACK == 2

RB_VALID == {}
RB_INVALID_COLOR == 1
RB_RED_ROOT == 2
RB_NULL_NOT_BLACK == 4
RB_RED_CHILD_OF_RED == 8
RB_UNEQUAL_BLACK_PATHS == 16

Keys == 1..MaxKey

\* create_node leaves n->color unset: the value read from it is whatever
\* malloc's block held.  IS_RED / IS_BLACK tell RED, BLACK and "neither" apart.
IndeterminateColor == {0, RED, BLACK}

VARIABLES
    heap,        \* Seq of node_t: [key, parent, left, right, color]
    root,        \* the caller's node_t *root (insert_node gets its address)
    call,        \* the last call: [name, key]; key is <<low, high>> for range_search
    err,         \* "none", or "assert" once an assert() has aborted the process
    printed,     \* verdict and flags of the validator's last run (insert_node prints them)
    result,      \* what the last search call reported to its caller
    out_list,    \* the caller's node_t *out_list[] handed to range_search
    live         \* history: keys inserted and not deleted afterwards

vars == <<heap, root, call, err, printed, result, out_list, live>>

\* ---- struct node_t and create_node ----
node_t(k, c) == [key |-> k, parent |-> NULL, left |-> NULL, right |-> NULL, color |-> c]

\* create_node without the "val == NULL" test.
create_node_nonullcheck(h, val, mallocOk, junk) ==
    IF ~mallocOk
    THEN [heap |-> h, node |-> NULL]
    ELSE [heap |-> Append(h, node_t(val, junk)), node |-> Len(h) + 1]

\* create_node(val): NULL for a NULL key or a failed malloc, else a fresh
\* node with key set, the three links NULL and the color left as it was in
\* the block (junk).  Yields the new heap and the pointer returned.
create_node(h, val, mallocOk, junk) ==
    IF val = NULL \/ ~mallocOk
    THEN [heap |-> h, node |-> NULL]
    ELSE [heap |-> Append(h, node_t(val, junk)), node |-> Len(h) + 1]

\* ---- rb_insert_node ----
\* The while loop of rb_insert_node, with an equal key treated as larger
\* (the final "else return" lost).
RECURSIVE find_insertion_point_nodup(_, _, _, _)
find_insertion_point_nodup(h, current, parent, key) ==
    IF current = NULL THEN [dup |-> FALSE, parent |-> parent]
    ELSE IF key < h[current].key
         THEN find_insertion_point_nodup(h, h[current].left, current, key)
         ELSE find_insertion_point_nodup(h, h[current].right, current, key)

\* The while loop of rb_insert_node: descend from current; dup is TRUE when
\* the loop hits an equal key (the function returns there), else parent is
\* the node whose absent child slot ended the loop.
RECURSIVE find_insertion_point(_, _, _, _)
find_insertion_point(h, current, parent, key) ==
    IF current = NULL THEN [dup |-> FALSE, parent |-> parent]
    ELSE IF key < h[current].key
         THEN find_insertion_point(h, h[current].left, current, key)
    ELSE IF key > h[current].key
         THEN find_insertion_point(h, h[current].right, current, key)
    ELSE [dup |-> TRUE, parent |-> current]

\* rb_insert_node coloring the attached node BLACK.
rb_insert_node_black(h, rt, newnode) ==
    LET p == find_insertion_point(h, rt, NULL, h[newnode].key)
    IN  IF p.dup THEN h
        ELSE LET par == p.parent
                 h1 == [h EXCEPT ![newnode].parent = par]
                 h2 == IF h1[newnode].key < h1[par].key
                       THEN [h1 EXCEPT ![par].left = newnode]
                       ELSE [h1 EXCEPT ![par].right = newnode]
             IN  [h2 EXCEPT ![newnode].color = BLACK]

\* rb_insert_node writing RED to parent->color instead of newnode->color.
rb_insert_node_parentred(h, rt, newnode) ==
    LET p == find_insertion_point(h, rt, NULL, h[newnode].key)
    IN  IF p.dup THEN h
        ELSE LET par == p.parent
                 h1 == [h EXCEPT ![newnode].parent = par]
                 h2 == IF h1[newnode].key < h1[par].key
                       THEN [h1 EXCEPT ![par].left = newnode]
                       ELSE [h1 EXCEPT ![par].right = newnode]
             IN  [h2 EXCEPT ![par].color = RED, ![newnode].color = RED]

\* rb_insert_node with the side test of the attachment inverted.
rb_insert_node_wrongside(h, rt, newnode) ==
    LET p == find_insertion_point(h, rt, NULL, h[newnode].key)
    IN  IF p.dup THEN h
        ELSE LET par == p.parent
                 h1 == [h EXCEPT ![newnode].parent = par]
                 h2 == IF h1[newnode].key > h1[par].key
                       THEN [h1 EXCEPT ![par].left = newnode]
                       ELSE [h1 EXCEPT ![par].right = newnode]
             IN  [h2 EXCEPT ![newnode].color = RED]

\* rb_insert_node without "newnode->parent = parent".
rb_insert_node_noparent(h, rt, newnode) ==
    LET p == find_insertion_point(h, rt, NULL, h[newnode].key)
    IN  IF p.dup THEN h
        ELSE LET par == p.parent
                 h2 == IF h[newnode].key < h[par].key
                       THEN [h EXCEPT ![par].left = newnode]
                       ELSE [h EXCEPT ![par].right = newnode]
             IN  [h2 EXCEPT ![newnode].color = RED]

\* rb_insert_node(root, newnode): plain BST insertion.  A duplicate key
\* returns with nothing linked; otherwise newnode gets its parent, is hung
\* on the parent's left or right, and is colored RED.  No rebalancing.
rb_insert_node(h, rt, newnode) ==
    LET p == find_insertion_point(h, rt, NULL, h[newnode].key)
    IN  IF p.dup THEN h
        ELSE LET par == p.parent
                 h1 == [h EXCEPT ![newnode].parent = par]
                 h2 == IF h1[newnode].key < h1[par].key
                       THEN [h1 EXCEPT ![par].left = newnode]
                       ELSE [h1 EXCEPT ![par].right = newnode]
             IN  [h2 EXCEPT ![newnode].color = RED]

\* ---- the validator ----
IS_RED(h, n) == h[n].color = RED
IS_BLACK(h, n) == h[n].color = BLACK

\* rb_get_black_height: walks curr = curr->left while curr->left is not
\* NULL, counting the nodes left behind that are not RED; the node the walk
\* stops on is not counted.
RECURSIVE rb_get_black_height_from(_, _, _)
rb_get_black_height_from(h, curr, black_height) ==
    IF h[curr].left # NULL
    THEN rb_get_black_height_from(h, h[curr].left,
             IF ~IS_RED(h, curr) THEN black_height + 1 ELSE black_height)
    ELSE black_height

rb_get_black_height(h, rt) == rb_get_black_height_from(h, rt, 0)

\* rb_validate_tree_recursive: the flags it ORs into *violations.  *black_h
\* is restored to current_black_h before the right subtree, so both
\* subtrees start from the same budget.
RECURSIVE rb_validate_tree_recursive(_, _, _)
rb_validate_tree_recursive(h, n, black_h) ==
    IF n = NULL
    THEN IF black_h # 0 THEN {RB_UNEQUAL_BLACK_PATHS} ELSE {}
    ELSE LET current_black_h == IF IS_BLACK(h, n) THEN black_h - 1 ELSE black_h
         IN  (IF ~IS_RED(h, n) /\ ~IS_BLACK(h, n) THEN {RB_INVALID_COLOR} ELSE {})
             \cup (IF IS_RED(h, n)
                      /\ (   (h[n].left # NULL /\ IS_RED(h, h[n].left))
                          \/ (h[n].right # NULL /\ IS_RED(h, h[n].right)))
                   THEN {RB_RED_CHILD_OF_RED} ELSE {})
             \cup rb_validate_tree_recursive(h, h[n].left, current_black_h)
             \cup rb_validate_tree_recursive(h, h[n].right, current_black_h)

\* rb_validate_tree with the root test written as an assignment,
\* "root->color = RED" for "root->color == RED": the test is always taken and
\* the root is left RED.
rb_validate_tree_assign(h, rt) ==
    IF rt = NULL THEN [abort |-> FALSE, violations |-> RB_VALID, heap |-> h]
    ELSE IF h[rt].parent # NULL THEN [abort |-> TRUE, violations |-> RB_VALID, heap |-> h]
    ELSE LET h1 == [h EXCEPT ![rt].color = RED]
         IN  [abort |-> FALSE,
              violations |-> {RB_RED_ROOT}
                             \cup rb_validate_tree_recursive(h1, rt, rb_get_black_height(h, rt)),
              heap |-> h1]

\* rb_validate_tree: abort is the assert(0) taken when the root has a parent;
\* heap is the heap the run leaves (the validator and its helpers write only
\* *violations and *black_h, never a node).
rb_validate_tree(h, rt) ==
    IF rt = NULL THEN [abort |-> FALSE, violations |-> RB_VALID, heap |-> h]
    ELSE IF h[rt].parent # NULL THEN [abort |-> TRUE, violations |-> RB_VALID, heap |-> h]
    ELSE [abort |-> FALSE,
          violations |-> (IF IS_RED(h, rt) THEN {RB_RED_ROOT} ELSE {})
                         \cup rb_validate_tree_recursive(h, rt, rb_get_black_height(h, rt)),
          heap |-> h]

\* ---- the tree as the caller sees it ----
\* The nodes reachable from n through left/right links.
RECURSIVE Reach(_, _)
Reach(h, n) ==
    IF n = NULL THEN {} ELSE {n} \cup Reach(h, h[n].left) \cup Reach(h, h[n].right)

\* The in-order sequence of the keys below n.
RECURSIVE InOrder(_, _)
InOrder(h, n) ==
    IF n = NULL THEN <<>>
    ELSE InOrder(h, h[n].left) \o <<h[n].key>> \o InOrder(h, h[n].right)

TreeKeys(h, rt) == {h[n].key : n \in Reach(h, rt)}

\* The linked part of the heap: every reachable node with all its fields.
Tree(h, rt) == [n \in Reach(h, rt) |-> h[n]]

\* The numbers of BLACK nodes on the paths from n down to an absent child.
RECURSIVE BlackCounts(_, _)
BlackCounts(h, n) ==
    IF n = NULL THEN {0}
    ELSE {c + (IF h[n].color = BLACK THEN 1 ELSE 0) :
            c \in BlackCounts(h, h[n].left) \cup BlackCounts(h, h[n].right)}

\* ---- the public operations ----
NothingPrinted == [verdict |-> "none", flags |-> RB_VALID]

\* The branch insert_node takes on the validator's outcome: nothing after the
\* assert(0), "tree is a valid rb tree", or "tree validation failed." and
\* one line per flag.
Report(v) ==
    IF v.abort THEN NothingPrinted
    ELSE IF v.violations = RB_VALID
    THEN [verdict |-> "valid", flags |-> RB_VALID]
    ELSE [verdict |-> "failed", flags |-> v.violations]

Init ==
    /\ heap = <<>>
    /\ root = NULL
    /\ call = [name |-> "init", key |-> NULL]
    /\ err = "none"
    /\ printed = NothingPrinted
    /\ result = "nothing"
    /\ out_list = <<>>
    /\ live = {}

\* insert_node(&root, val).  mallocOk and junk are the environment's part of
\* create_node: whether malloc returns a block, and the color bits in it.
insert_node(val, mallocOk, junk) ==
    /\ err = "none"
    /\ call' = [name |-> "insert", key |-> val]
    /\ UNCHANGED <<result, out_list>>
    /\ LET c == create_node(heap, val, mallocOk, junk)
           newnode == c.node
       IN  IF newnode = NULL
           THEN \* assert(newnode) aborts
                /\ err' = "assert"
                /\ UNCHANGED <<heap, root, live>>
                /\ printed' = NothingPrinted
           ELSE IF root = NULL
           THEN \* first node becomes root and must be black
                /\ heap' = [c.heap EXCEPT ![newnode].color = BLACK]
                /\ root' = newnode
                /\ err' = "none"
                /\ printed' = NothingPrinted
                /\ live' = live \cup {val}
           ELSE LET h2 == rb_insert_node(c.heap, root, newnode)
                    v == rb_validate_tree(h2, root)
                IN  /\ heap' = v.heap
                    /\ UNCHANGED root
                    /\ err' = IF v.abort THEN "assert" ELSE "none"
                    /\ printed' = Report(v)
                    /\ live' = live \cup {val}

\* delete_node that unlinks the root's left subtree whatever the key is.
delete_node_unlink(val) ==
    /\ err = "none"
    /\ call' = [name |-> "delete", key |-> val]
    /\ live' = live \ {val}
    /\ heap' = IF root # NULL /\ heap[root].left # NULL
               THEN [heap EXCEPT ![heap[root].left].parent = NULL, ![root].left = NULL]
               ELSE heap
    /\ UNCHANGED <<root, err, printed, result, out_list>>

\* delete_node(root, val): the body is empty.
delete_node(val) ==
    /\ err = "none"
    /\ call' = [name |-> "delete", key |-> val]
    /\ live' = live \ {val}
    /\ UNCHANGED <<heap, root, err, printed, result, out_list>>

\* search(root, query_key): the body is empty and the function returns
\* void, so the caller is told nothing.
search(query_key) ==
    /\ err = "none"
    /\ call' = [name |-> "search", key |-> query_key]
    /\ result' = "nothing"
    /\ UNCHANGED <<heap, root, err, printed, out_list, live>>

Next ==
    \/ \E val \in Keys \cup {NULL}, mallocOk \in BOOLEAN, junk \in IndeterminateColor :
           Len(heap) < MaxNodes /\ insert_node(val, mallocOk, junk)
    \/ \E val \in Keys : delete_node(val)
    \/ \E query_key \in Keys : search(query_key)

Spec == Init /\ [][Next]_vars

\* ---- range queries over trees of distinct keys ----
\* range_search(root, out_list, query_key), query_key naming the range
\* [low, high]: the body is empty, so out_list is left as the caller passed
\* it and nothing is rejected.
range_search(low, high) ==
    /\ err = "none"
    /\ call' = [name |-> "range_search", key |-> <<low, high>>]
    /\ UNCHANGED <<heap, root, err, printed, result, out_list, live>>

DistinctKeys == {10 * i : i \in 1..MaxDistinct}

\* Inserts of keys not yet in the tree, in any order, and range queries.
NextDistinct ==
    \/ \E val \in DistinctKeys, junk \in IndeterminateColor :
           val \notin TreeKeys(heap, root) /\ insert_node(val, TRUE, junk)
    \/ \E low \in DistinctKeys, high \in DistinctKeys : range_search(low, high)

SpecDistinct == Init /\ [][NextDistinct]_vars

\* ---- the validator on arbitrary trees ----
\* Tree shapes of n nodes with every coloring: <<>> is the absent child,
\* <<l, c, r>> a node of color c over the shapes l and r.
RECURSIVE Shapes(_)
Shapes(n) ==
    IF n = 0 THEN {<<>>}
    ELSE UNION {{<<l, c, r>> : l \in Shapes(k), c \in IndeterminateColor,
                                r \in Shapes(n - 1 - k)} : k \in 0..(n - 1)}

RECURSIVE Size(_)
Size(s) == IF s = <<>> THEN 0 ELSE 1 + Size(s[1]) + Size(s[3])

\* The nodes of shape s laid out in preorder from heap index off + 1, under
\* the parent par, with keys in search-tree order above lo.
RECURSIVE Build(_, _, _, _)
Build(s, off, par, lo) ==
    IF s = <<>> THEN <<>>
    ELSE LET me == off + 1
             ls == Size(s[1])
         IN  <<[key |-> lo + ls + 1,
                parent |-> par,
                left |-> IF s[1] = <<>> THEN NULL ELSE me + 1,
                right |-> IF s[3] = <<>> THEN NULL ELSE me + ls + 1,
                color |-> s[2]]>>
             \o Build(s[1], me, me, lo)
             \o Build(s[3], me + ls, me, lo + ls + 1)

\* Every tree of up to MaxTreeNodes nodes; root is NULL, the tree's root, or
\* an inner node (the validator is then run on a node that has a parent).
InitValidate ==
    /\ \E n \in 0..MaxTreeNodes : \E s \in Shapes(n) : heap = Build(s, 0, NULL, 0)
    /\ root \in 0..Len(heap)
    /\ call = [name |-> "init", key |-> NULL]
    /\ err = "none"
    /\ printed = NothingPrinted
    /\ result = "nothing"
    /\ out_list = <<>>
    /\ live = {heap[n].key : n \in 1..Len(heap)}

\* One run of rb_validate_tree(root, &violations).
validate ==
    /\ err = "none"
    /\ call' = [name |-> "validate", key |-> NULL]
    /\ LET v == rb_validate_tree(heap, root)
       IN  /\ heap' = v.heap
           /\ err' = IF v.abort THEN "assert" ELSE "none"
           /\ printed' = Report(v)
    /\ UNCHANGED <<root, result, out_list, live>>

NextValidate == validate

SpecValidate == InitValidate /\ [][NextValidate]_vars

\* ---- properties ----
Completed(name) == call.name = name /\ err = "none"

StrictlyAscending(seq) == \A i \in 1..(Len(seq) - 1) : seq[i] < seq[i + 1]

\* C1: after each insert_node call with a non-null key, the validator run
\* on the root yields the empty violation set RB_VALID.
C1_ValidAfterInsert ==
    Completed("insert") => rb_validate_tree(heap, root).violations = RB_VALID

\* C2: after every completed insert_node call no RED node of the tree has a
\* RED child.
C2_NoRedRedAfterInsert ==
    Completed("insert") =>
        \A n \in Reach(heap, root) :
            heap[n].color = RED =>
                /\ (heap[n].left # NULL => heap[heap[n].left].color # RED)
                /\ (heap[n].right # NULL => heap[heap[n].right].color # RED)

\* C3: after every completed insert_node call, for every node of the tree,
\* all paths from it down to an absent child hold the same number of BLACK
\* nodes.
C3_EqualBlackPaths ==
    Completed("insert") =>
        \A n \in Reach(heap, root) : Cardinality(BlackCounts(heap, n)) = 1

\* C3 witness: an insert has completed on a tree that holds a node two
\* levels below the root.
C3_Witness ==
    /\ Completed("insert")
    /\ \E n \in Reach(heap, root) :
           heap[n].parent # NULL /\ heap[heap[n].parent].parent # NULL

\* C4: after every completed insert_node call the root, if present, is
\* BLACK and has no parent link.
C4_RootBlackNoParent ==
    (Completed("insert") /\ root # NULL) =>
        heap[root].color = BLACK /\ heap[root].parent = NULL

\* C4 witness: an insert into a non-empty tree has completed and the root
\* has a child on each side.
C4_Witness ==
    /\ Completed("insert")
    /\ root # NULL
    /\ heap[root].left # NULL
    /\ heap[root].right # NULL

\* C5: after any sequence of insert_node and delete_node calls the in-order
\* traversal of the tree is strictly ascending, so no key occurs twice.
C5_InOrderAscending == StrictlyAscending(InOrder(heap, root))

\* C5 witness: a delete_node call on a key of the tree has returned and the
\* tree holds at least three keys.
C5_Witness ==
    /\ Completed("delete")
    /\ call.key \in TreeKeys(heap, root)
    /\ Len(InOrder(heap, root)) >= 3

\* C6: search(tree, k) reports k as found exactly when k was inserted and
\* not deleted afterwards.
C6_SearchFindsLive ==
    Completed("search") => ((result = "found") <=> (call.key \in live))

C8_DeleteRemovesKey ==
    [][ (call'.name = "delete" /\ call'.key \in TreeKeys(heap, root))
        => TreeKeys(heap', root') = TreeKeys(heap, root) \ {call'.key} ]_vars

\* C9: after each delete_node call, whether its key is present or not, the
\* validator run on the root yields the empty violation set.
C9_ValidAfterDelete ==
    Completed("delete") => rb_validate_tree(heap, root).violations = RB_VALID

\* C10: delete_node with a key that is not in the tree leaves heap and root
\* as they were and raises no error.
C10_DeleteAbsentNoOp ==
    [][ (call'.name = "delete" /\ call'.key \notin TreeKeys(heap, root))
        => (heap' = heap /\ root' = root /\ err' = "none") ]_vars

\* C10 witness: a delete_node call with a key the tree does not hold has
\* returned on a tree whose root has a left child.
C10_Witness ==
    /\ Completed("delete")
    /\ call.key \notin TreeKeys(heap, root)
    /\ root # NULL
    /\ heap[root].left # NULL

\* ---- properties: shape, validator, queries, allocation ----
\* The number of nodes on the longest path from n down to an absent child.
RECURSIVE Height(_, _)
Height(h, n) ==
    IF n = NULL THEN 0
    ELSE LET l == Height(h, h[n].left)
             r == Height(h, h[n].right)
         IN  1 + (IF l > r THEN l ELSE r)

RECURSIVE Pow2(_)
Pow2(k) == IF k = 0 THEN 1 ELSE 2 * Pow2(k - 1)

\* The keys of the heap's nodes in allocation order.
KeysInOrderOfInsertion == [i \in 1..Len(heap) |-> heap[i].key]

\* C11: after inserting n distinct keys in any order the height h satisfies
\* h <= 2*log2(n+1), that is 2^h <= (n+1)^2, and inserting 10, 20, 30, 40, 50
\* in ascending order yields a tree of height at most 3.
C11_HeightLogarithmic ==
    LET n == Cardinality(Reach(heap, root))
        h == Height(heap, root)
    IN  /\ Pow2(h) <= (n + 1) * (n + 1)
        /\ (KeysInOrderOfInsertion = <<10, 20, 30, 40, 50>> => h <= 3)

\* C12: inserting three keys a < b < c in ascending order into the empty
\* tree yields the root b, BLACK, with left child a and right child c, both
\* RED.
C12_ThreeAscendingBalanced ==
    (/\ Len(heap) = 3
     /\ heap[1].key < heap[2].key
     /\ heap[2].key < heap[3].key)
    => (/\ heap[root].key = heap[2].key
        /\ heap[root].color = BLACK
        /\ heap[root].left # NULL
        /\ heap[heap[root].left].key = heap[1].key
        /\ heap[heap[root].left].color = RED
        /\ heap[root].right # NULL
        /\ heap[heap[root].right].key = heap[3].key
        /\ heap[heap[root].right].color = RED)

\* The four conditions of a red-black coloring on the tree below rt.
IsRedBlack(h, rt) ==
    /\ \A n \in Reach(h, rt) : h[n].color \in {RED, BLACK}
    /\ rt # NULL => h[rt].color = BLACK
    /\ \A n \in Reach(h, rt) :
           h[n].color = RED =>
               /\ (h[n].left # NULL => h[h[n].left].color # RED)
               /\ (h[n].right # NULL => h[h[n].right].color # RED)
    /\ Cardinality(BlackCounts(h, rt)) = 1

\* C13: on a tree whose root has no parent the validator yields RB_VALID
\* exactly when every color is RED or BLACK, the root is BLACK, no RED node
\* has a RED child and all root-to-leaf paths hold the same number of BLACK
\* nodes.
C13_ValidatorExact ==
    (root = NULL \/ heap[root].parent = NULL) =>
        ((rb_validate_tree(heap, root).violations = RB_VALID)
            <=> IsRedBlack(heap, root))

\* C14: range_search over [low, high] yields exactly the keys of the tree
\* within the range, ascending (none when no key qualifies), and rejects
\* low > high with an error.
C14_RangeSearchExact ==
    call.name = "range_search" =>
        LET low == call.key[1]
            high == call.key[2]
            InRange(k) == low <= k /\ k <= high
        IN  IF low > high
            THEN err # "none"
            ELSE /\ err = "none"
                 /\ [i \in 1..Len(out_list) |-> heap[out_list[i]].key]
                        = SelectSeq(InOrder(heap, root), InRange)

\* C15: insert_node with a NULL key ends at the failed assert(newnode) with
\* heap and root exactly as before the call.
C15_NullKeyRejected ==
    [][ (call'.name = "insert" /\ call'.key = NULL)
        => (err' = "assert" /\ heap' = heap /\ root' = root) ]_vars

\* C15 witness: an insert_node call with a NULL key on a non-empty tree has
\* ended at the assert.
C15_Witness ==
    /\ call.name = "insert"
    /\ call.key = NULL
    /\ err = "assert"
    /\ root # NULL

\* C16: a run of rb_validate_tree changes no field of any node and not the
\* root reference.
C16_ValidatorReadOnly ==
    [][ call'.name = "validate" => (heap' = heap /\ root' = root) ]_vars

\* C16 witness: the validator has run to its end on a tree of at least three
\* nodes with a BLACK root and has reported violations.
C16_Witness ==
    /\ Completed("validate")
    /\ root # NULL
    /\ heap[root].color = BLACK
    /\ Cardinality(Reach(heap, root)) >= 3
    /\ printed.verdict = "failed"

\* C17: every node has a defined color: a node as create_node returned it
\* (here: one that was never linked) is RED, the root is BLACK, and every
\* node attached below another is RED.
C17_ColorsDefined ==
    \A n \in 1..Len(heap) :
        IF n = root THEN heap[n].color = BLACK ELSE heap[n].color = RED

\* C18: after every insert_node call the nodes allocated by create_node are
\* exactly the nodes reachable from the root.
C18_NoUnlinkedNode ==
    Completed("insert") => Reach(heap, root) = 1..Len(heap)

\* The BLACK nodes on the left-most spine from n down to and including the
\* left-most node.
RECURSIVE SpineBlacks(_, _)
SpineBlacks(h, n) ==
    IF n = NULL THEN 0
    ELSE (IF h[n].color = BLACK THEN 1 ELSE 0) + SpineBlacks(h, h[n].left)

\* C19: the budget rb_get_black_height(root) is the number of BLACK nodes
\* on the left-most spine, left-most node included, so on a tree with equal
\* black counts on all paths RB_UNEQUAL_BLACK_PATHS is not set.
C19_BudgetIsSpineBlacks ==
    (root # NULL /\ heap[root].parent = NULL) =>
        /\ rb_get_black_height(heap, root) = SpineBlacks(heap, root)
        /\ (Cardinality(BlackCounts(heap, root)) = 1
               => RB_UNEQUAL_BLACK_PATHS \notin rb_validate_tree(heap, root).violations)

\* Following parent links from n reaches rt in at most k steps.
RECURSIVE ClimbsTo(_, _, _, _)
ClimbsTo(h, n, rt, k) ==
    IF n = rt THEN TRUE
    ELSE IF k = 0 \/ h[n].parent = NULL THEN FALSE
    ELSE ClimbsTo(h, h[n].parent, rt, k - 1)

\* C20: in every tree reachable by insert_node calls a child's parent link
\* names the node that holds it, every non-root node is the left or right
\* child of its parent, and the parent links lead from every node to the
\* root without a cycle.
C20_LinksAgree ==
    \A n \in Reach(heap, root) :
        /\ (heap[n].left # NULL => heap[heap[n].left].parent = n)
        /\ (heap[n].right # NULL => heap[heap[n].right].parent = n)
        /\ (n # root =>
               /\ heap[n].parent # NULL
               /\ (heap[heap[n].parent].left = n \/ heap[heap[n].parent].right = n))
        /\ ClimbsTo(heap, n, root, Cardinality(Reach(heap, root)) - 1)

\* C20 witness: an insert has hung a node as the right child of the root's
\* left child.
C20_Witness ==
    /\ Completed("insert")
    /\ root # NULL
    /\ heap[root].left # NULL
    /\ heap[heap[root].left].right # NULL
    /\ heap[heap[heap[root].left].right].key = call.key

====
